---------------------------- MODULE Spec2Model ----------------------------
(***************************************************************************)
(* Model of the validated identifier types of ruma-identifiers:            *)
(*   - validate::<A, K>           (ruma-identifiers-validation)             *)
(*   - QualifiedKeyId<A, K>       (signatures.rs)                           *)
(*   - key_identifier! wrappers   (macros.rs: DeviceId, KeyVersion)         *)
(* Text is a sequence of bytes (naturals below 256); offsets are 0-based   *)
(* as in the source, so byte offset i of s is s[i + 1].                    *)
(***************************************************************************)
EXTENDS Integers, Sequences, FiniteSets

(* ------------------------------- bounds -------------------------------- *)

\* longest free-form tail appended to the padding of a parse input
MaxTail == 2
\* longest free-form algorithm text handed to from_parts
MaxAlg == 2
\* longest key-identifier text handed to from_parts
MaxKey == 1
\* how far around the one-byte limit the padded inputs reach
PadSlack == 1
\* longest text of the two-instance (comparison) specification
MaxCmp == 3
\* longest text wrapped by a single-part identifier
MaxId == 2

(* ------------------------------ constants ------------------------------ *)

\* number of values of a u8: `as u8` and NonZeroU8
U8Mod == 256
\* the byte ':' searched for by s.find(':') and pushed by from_parts
Colon == 58

(* -------------------------------- text --------------------------------- *)

Alphabet == {Colon, 97, 98}

Pad(n) == [i \in 1..n |-> 97]

RECURSIVE Texts(_)
Texts(n) ==
    IF n = 0 THEN {<<>>}
    ELSE LET shorter == Texts(n - 1)
         IN  shorter \cup {Append(t, b) : t \in {u \in shorter : Len(u) = n - 1}, b \in Alphabet}

PadLens == {0, 1} \cup ((U8Mod - 1 - PadSlack)..(U8Mod + PadSlack))

\* &s[from..to] with 0-based, end-exclusive byte offsets
Slice(s, from, to) == SubSeq(s, from + 1, to)

\* &s[from..]
SliceFrom(s, from) == SubSeq(s, from + 1, Len(s))

None == [some |-> FALSE, pos |-> 0]

\* str::find(':'): the 0-based offset of the first colon byte
find(s) ==
    LET hits == {i \in 1..Len(s) : s[i] = Colon}
    IN  IF hits = {} THEN None
        ELSE [some |-> TRUE, pos |-> (CHOOSE i \in hits : \A j \in hits : i <= j) - 1]


(* ------------------- the Algorithm and KeyVersion domains -------------- *)
(* validate and QualifiedKeyId are generic over A and K; all they use of   *)
(* a domain is FromStr (parse) and AsRef<str> (render).  A is an enum of   *)
(* named algorithms, "strict" (unknown names are rejected) or "open"       *)
(* (unknown names become Custom); K is a text wrapper that accepts any     *)
(* text ("any") or any non-empty text ("nonempty").                        *)

ADomains == {"strict", "open"}

KDomains == {"any", "nonempty"}

AlgVariants == {"AlgA", "AlgAB", "AlgMax"}

\* the names of the variants; AlgMax has the longest name a split offset
\* can follow
AlgNames ==
    [v \in AlgVariants |->
        CASE v = "AlgA"   -> <<97>>
          [] v = "AlgAB"  -> <<97, 98>>
          [] v = "AlgMax" -> Pad(U8Mod - 1)]

AlgName(v) == AlgNames[v]

Known(v) == [variant |-> v, text |-> <<>>]

Custom(t) == [variant |-> "Custom", text |-> t]

NoAlg == [variant |-> "None", text |-> <<>>]

NoKey == [inner |-> <<>>, set |-> FALSE]

Key(t) == [inner |-> t, set |-> TRUE]

\* <A as FromStr>::from_str
A_from_str(dom, t) ==
    IF \E v \in AlgVariants : AlgName(v) = t
    THEN [ok |-> TRUE, val |-> Known(CHOOSE v \in AlgVariants : AlgName(v) = t)]
    ELSE IF dom = "open"
         THEN [ok |-> TRUE, val |-> Custom(t)]
         ELSE [ok |-> FALSE, val |-> NoAlg]

\* <A as AsRef<str>>::as_ref
A_as_ref(a) == IF a.variant = "Custom" THEN a.text ELSE AlgName(a.variant)

\* <K as FromStr>::from_str
K_from_str(dom, t) ==
    IF dom = "nonempty" /\ t = <<>>
    THEN [ok |-> FALSE, val |-> NoKey]
    ELSE [ok |-> TRUE, val |-> Key(t)]

\* <K as AsRef<str>>::as_ref
K_as_ref(k) == k.inner

(* ------------------------------ validate ------------------------------- *)

NoErr == "-"

Ok(idx) == [ok |-> TRUE, idx |-> idx, err |-> NoErr]

Err(e) == [ok |-> FALSE, idx |-> 0, err |-> e]

\* `n as u8`
as_u8(n) == n % U8Mod

\* validate with the last colon taken for the delimiter (rfind for find)
validate_rfind(adom_, kdom_, s) ==
    LET hits == {i \in 1..Len(s) : s[i] = Colon}
    IN  IF hits = {} THEN Err("MissingKeyDelimiter")
        ELSE LET colon_idx == as_u8((CHOOSE i \in hits : \A j \in hits : i >= j) - 1)
             IN  IF colon_idx = 0 THEN Err("UnknownKeyAlgorithm")
                 ELSE IF ~A_from_str(adom_, Slice(s, 0, colon_idx)).ok
                      THEN Err("UnknownKeyAlgorithm")
                 ELSE IF ~K_from_str(kdom_, SliceFrom(s, colon_idx + 1)).ok
                      THEN Err("InvalidKeyVersion")
                 ELSE Ok(colon_idx)

\* validate with the key version parsed before the algorithm
validate_key_first(adom_, kdom_, s) ==
    LET found == find(s)
    IN  IF ~found.some THEN Err("MissingKeyDelimiter")
        ELSE LET colon_idx == as_u8(found.pos)
             IN  IF colon_idx = 0 THEN Err("UnknownKeyAlgorithm")
                 ELSE IF ~K_from_str(kdom_, SliceFrom(s, colon_idx + 1)).ok
                      THEN Err("InvalidKeyVersion")
                 ELSE IF ~A_from_str(adom_, Slice(s, 0, colon_idx)).ok
                      THEN Err("UnknownKeyAlgorithm")
                 ELSE Ok(colon_idx)

\* validate without the key version check
validate_no_key_check(adom_, kdom_, s) ==
    LET found == find(s)
    IN  IF ~found.some THEN Err("MissingKeyDelimiter")
        ELSE LET colon_idx == as_u8(found.pos)
             IN  IF colon_idx = 0 THEN Err("UnknownKeyAlgorithm")
                 ELSE IF ~A_from_str(adom_, Slice(s, 0, colon_idx)).ok
                      THEN Err("UnknownKeyAlgorithm")
                 ELSE Ok(colon_idx)

validate(adom_, kdom_, s) ==
    LET found == find(s)
    IN  IF ~found.some THEN Err("MissingKeyDelimiter")
        ELSE LET colon_idx == as_u8(found.pos)
             IN  IF colon_idx = 0 THEN Err("UnknownKeyAlgorithm")
                 ELSE IF ~A_from_str(adom_, Slice(s, 0, colon_idx)).ok
                      THEN Err("UnknownKeyAlgorithm")
                 ELSE IF ~K_from_str(kdom_, SliceFrom(s, colon_idx + 1)).ok
                      THEN Err("InvalidKeyVersion")
                 ELSE Ok(colon_idx)

(* ---------------------------- QualifiedKeyId --------------------------- *)

NoId == [full_id |-> <<>>, colon_idx |-> 0]

\* a Result<QualifiedKeyId, Error>, or the panic of a call that aborted
Returned(id) == [tag |-> "Ok", id |-> id, err |-> NoErr]

Failed(e) == [tag |-> "Err", id |-> NoId, err |-> e]

Panicked(msg) == [tag |-> "Panic", id |-> NoId, err |-> msg]

try_from(adom_, kdom_, key_id) ==
    LET v == validate(adom_, kdom_, key_id)
    IN  IF ~v.ok THEN Failed(v.err)
        ELSE Returned([full_id |-> key_id, colon_idx |-> v.idx])

\* from_parts with the split offset searched for in the text built
from_parts_find(a, k) ==
    LET algorithm      == A_as_ref(a)
        key_identifier == K_as_ref(k)
        res            == algorithm \o <<Colon>> \o key_identifier
    IN  IF Len(algorithm) >= U8Mod THEN Panicked("no algorithm name len > 255")
        ELSE IF Len(algorithm) = 0 THEN Panicked("no empty algorithm name")
        ELSE Returned([full_id |-> res, colon_idx |-> find(res).pos])

\* from_parts with the length cast (`as u8`) instead of converted (try_into)
from_parts_as_u8(a, k) ==
    LET algorithm      == A_as_ref(a)
        key_identifier == K_as_ref(k)
        res            == algorithm \o <<Colon>> \o key_identifier
    IN  IF as_u8(Len(algorithm)) = 0 THEN Panicked("no empty algorithm name")
        ELSE Returned([full_id |-> res, colon_idx |-> as_u8(Len(algorithm))])

\* from_parts without the push of the colon
from_parts_no_colon(a, k) ==
    LET algorithm      == A_as_ref(a)
        key_identifier == K_as_ref(k)
        res            == algorithm \o key_identifier
    IN  IF Len(algorithm) >= U8Mod THEN Panicked("no algorithm name len > 255")
        ELSE IF Len(algorithm) = 0 THEN Panicked("no empty algorithm name")
        ELSE Returned([full_id |-> res, colon_idx |-> Len(algorithm)])

from_parts(a, k) ==
    LET algorithm      == A_as_ref(a)
        key_identifier == K_as_ref(k)
        res            == algorithm \o <<Colon>> \o key_identifier
    IN  IF Len(algorithm) >= U8Mod THEN Panicked("no algorithm name len > 255")
        ELSE IF Len(algorithm) = 0 THEN Panicked("no empty algorithm name")
        ELSE Returned([full_id |-> res, colon_idx |-> Len(algorithm)])

\* QualifiedKeyId::algorithm: A::from_str(..).unwrap(); ok = FALSE is the panic
algorithm(adom_, id) == A_from_str(adom_, Slice(id.full_id, 0, id.colon_idx))

\* QualifiedKeyId::identifier
identifier(kdom_, id) == K_from_str(kdom_, SliceFrom(id.full_id, id.colon_idx + 1))

as_str(id) == id.full_id

\* Display: write!(f, "{}", self.as_str())
fmt(id) == as_str(id)

\* From<QualifiedKeyId<A, K>> for String
into_string(id) == id.full_id

\* equality as #[derive(PartialEq)] would give it: field by field
eq_derived(x, y) == x.full_id = y.full_id /\ x.colon_idx = y.colon_idx

eq(x, y) == as_str(x) = as_str(y)

\* Ord::cmp on str: the first differing byte decides, then the lengths
cmp(x, y) ==
    LET l == as_str(x)
        r == as_str(y)
        n == IF Len(l) < Len(r) THEN Len(l) ELSE Len(r)
        d == {i \in 1..n : l[i] # r[i]}
    IN  IF d # {}
        THEN LET i == CHOOSE i \in d : \A j \in d : i <= j
             IN  IF l[i] < r[i] THEN "Less" ELSE "Greater"
        ELSE IF Len(l) < Len(r) THEN "Less"
        ELSE IF Len(l) > Len(r) THEN "Greater"
        ELSE "Equal"

\* Hash::hash feeds as_str() to the hasher
hash_input(id) == as_str(id)


(* --------------- single-part identifiers (key_identifier!) ------------- *)
(* A str is a fat pointer (buffer, length) into the heap; the wrapper is   *)
(* #[repr(transparent)] over str, so the transmutes keep that pointer.     *)

Null == [ptr |-> 0, len |-> 0]

IsSet(p) == p.ptr # 0

\* the bytes a str, an identifier or a String points at
bytes(h, p) == SubSeq(h[p.ptr], 1, p.len)

\* a fresh buffer holding b: the heap after the allocation
alloc(h, b) == Append(h, b)

\* the pointer to the buffer alloc(h, b) added
fresh(h, b) == [ptr |-> Len(h) + 1, len |-> Len(b)]

\* $id::from_borrowed: transmute(&str) -> &$id
from_borrowed(s) == s

\* $id::from_owned: transmute(Box<str>) -> Box<$id>
from_owned(s) == s

\* $id::into_owned: transmute(Box<$id>) -> Box<str>
into_owned(id) == id

\* $id::as_str: &self.0
id_as_str(id) == id

\* ToOwned with the buffer reserved and the bytes never copied into it
to_owned_heap_no_copy(h, id) == alloc(h, <<>>)

\* ToOwned::to_owned, the heap: self.0.to_owned() copies the bytes
to_owned_heap(h, id) == alloc(h, bytes(h, id_as_str(id)))

\* ToOwned::to_owned, the value: from_owned(<the copy>.into_boxed_str())
to_owned(h, id) == from_owned([ptr |-> Len(h) + 1, len |-> Len(to_owned_heap(h, id)[Len(h) + 1])])

\* #[derive(PartialEq)] on struct $id(str): the texts are compared
id_eq(h, l, r) == bytes(h, id_as_str(l)) = bytes(h, id_as_str(r))

\* partial_eq_string!: $id == str, &str, String
id_eq_str(h, id, s) == bytes(h, id_as_str(id)) = s

\* partial_eq_string!: str, &str, String == $id
str_eq_id(h, s, id) == s = bytes(h, id_as_str(id))

(* ------------------------------- state --------------------------------- *)
(* adom, kdom : the type parameters A and K the caller instantiated        *)
(* calls      : per binding of the caller, the constructor call it was     *)
(*              initialised with and what that call returned; instances    *)
(*              are immutable, so a binding is written once                *)
(* text       : the text t a caller wraps in a single-part identifier      *)
(* heap       : the buffers; heap[1] is the caller's buffer holding t      *)
(* ids        : the caller's identifiers: view (&Id), owned and copy       *)
(*              (Box<Id>); Null when not bound or moved out of             *)
(* back       : the String an owned identifier was converted into          *)
(* moved      : the caller's String was moved into an identifier           *)

VARIABLES adom, kdom, calls, text, heap, ids, back, moved

keyvars == <<adom, kdom, calls>>

idvars == <<text, heap, ids, back, moved>>

vars == <<adom, kdom, calls, text, heap, ids, back, moved>>

Slots == {"x", "y"}

NoCall == [op |-> "none", s |-> <<>>, a |-> NoAlg, k |-> NoKey, ret |-> Failed(NoErr)]

ParseCall(s, ret) == [op |-> "try_from", s |-> s, a |-> NoAlg, k |-> NoKey, ret |-> ret]

PartsCall(a, k, ret) == [op |-> "from_parts", s |-> <<>>, a |-> a, k |-> k, ret |-> ret]

\* the typed values of the two domains: what their parsers produce
AlgTexts == {Pad(n) : n \in PadLens} \cup Texts(MaxAlg)

AValuesOf ==
    [dom \in ADomains |->
        {A_from_str(dom, t).val : t \in {u \in AlgTexts : A_from_str(dom, u).ok}}
            \cup {Known(v) : v \in AlgVariants}]

AValues(dom) == AValuesOf[dom]

KValuesOf ==
    [dom \in KDomains |->
        {K_from_str(dom, t).val : t \in {u \in Texts(MaxKey) : K_from_str(dom, u).ok}}]

KValues(dom) == KValuesOf[dom]

ParseInputs == {Pad(n) \o t : n \in PadLens, t \in Texts(MaxTail)}

CmpInputs == Texts(MaxCmp)

\* the parts whose composed text is no longer than MaxCmp
CmpPartsOf ==
    [d \in ADomains \X KDomains |->
        {p \in AValues(d[1]) \X KValues(d[2]) :
            Len(A_as_ref(p[1])) + 1 + Len(K_as_ref(p[2])) <= MaxCmp}]

CmpParts(ad, kd) == CmpPartsOf[<<ad, kd>>]

Names == {"view", "owned", "copy"}

NoIds ==
    /\ heap = << text >>
    /\ ids = [n \in Names |-> Null]
    /\ back = Null
    /\ moved = FALSE

Init ==
    /\ adom \in ADomains
    /\ kdom \in KDomains
    /\ calls = [b \in Slots |-> NoCall]
    /\ text = <<>>
    /\ NoIds

\* a binding is initialised once
Unbound(b) == calls[b].op = "none"

\* let <b> = QualifiedKeyId::<A, K>::try_from(s)   (also from_str, TryFrom<String>)
TryFrom(b, s) ==
    /\ Unbound(b)
    /\ calls' = [calls EXCEPT ![b] = ParseCall(s, try_from(adom, kdom, s))]
    /\ UNCHANGED <<adom, kdom, idvars>>

\* let <b> = QualifiedKeyId::<A, K>::from_parts(a, k)
FromParts(b, a, k) ==
    /\ Unbound(b)
    /\ calls' = [calls EXCEPT ![b] = PartsCall(a, k, from_parts(a, k))]
    /\ UNCHANGED <<adom, kdom, idvars>>

Parse == Unbound("x") /\ \E s \in ParseInputs : TryFrom("x", s)

Compose ==
    Unbound("x") /\ \E a \in AValues(adom), k \in KValues(kdom) : FromParts("x", a, k)

Next == Parse \/ Compose

Spec == Init /\ [][Next]_vars

\* two bindings, for the relations between instances
ParseCmp == \E b \in Slots : Unbound(b) /\ \E s \in CmpInputs : TryFrom(b, s)

ComposeCmp ==
    \E b \in Slots :
        Unbound(b) /\ \E p \in CmpParts(adom, kdom) : FromParts(b, p[1], p[2])

NextCmp == ParseCmp \/ ComposeCmp

SpecCmp == Init /\ [][NextCmp]_vars

\* the instances that exist
Live(b) == calls[b].ret.tag = "Ok"

Inst(b) == calls[b].ret.id


(* ------------------------ properties: validate ------------------------- *)

\* i is the 0-based byte offset of the first colon of s
FirstColonAt(s, i) ==
    /\ i \in 0..(Len(s) - 1)
    /\ s[i + 1] = Colon
    /\ \A j \in 1..i : s[j] # Colon

HasColon(s) == \E i \in 0..(Len(s) - 1) : FirstColonAt(s, i)

Parsed(b) == calls[b].op = "try_from"

Composed(b) == calls[b].op = "from_parts"

\* C1: an input whose first colon lies beyond byte offset 255 is rejected
\* with UnknownKeyAlgorithm, whatever the A and K parsers accept, and no
\* split offset is returned for it.
C1_LateColonRejected ==
    \A b \in Slots :
        (Parsed(b) /\ \E i \in U8Mod..Len(calls[b].s) : FirstColonAt(calls[b].s, i))
            => /\ calls[b].ret = Failed("UnknownKeyAlgorithm")
               /\ validate(adom, kdom, calls[b].s) = Err("UnknownKeyAlgorithm")

\* C2: every instance that exists has 1 <= colon_idx <= 255 and the byte
\* of full_id at offset colon_idx is ':'.
C2_ColonAtSplit ==
    \A b \in Slots :
        Live(b) => /\ Inst(b).colon_idx \in 1..(U8Mod - 1)
                   /\ Inst(b).colon_idx < Len(Inst(b).full_id)
                   /\ Inst(b).full_id[Inst(b).colon_idx + 1] = Colon

\* the case of C3: first colon at offset i in 1..255, prefix accepted by A,
\* suffix accepted by K
ValidAt(s, i) ==
    /\ FirstColonAt(s, i)
    /\ i \in 1..(U8Mod - 1)
    /\ A_from_str(adom, Slice(s, 0, i)).ok
    /\ K_from_str(kdom, SliceFrom(s, i + 1)).ok

\* C3: a valid input parses: validate returns exactly the offset i of the
\* first colon, the instance stores s unchanged with colon_idx = i, and
\* as_str, Display and String::from all give s back.
C3_ValidParses ==
    \A b \in Slots : \A i \in 0..Len(calls[b].s) :
        (Parsed(b) /\ ValidAt(calls[b].s, i))
            => /\ validate(adom, kdom, calls[b].s) = Ok(i)
               /\ calls[b].ret = Returned([full_id |-> calls[b].s, colon_idx |-> i])
               /\ as_str(Inst(b)) = calls[b].s
               /\ fmt(Inst(b)) = calls[b].s
               /\ into_string(Inst(b)) = calls[b].s

\* a valid input whose colon sits at the largest offset the index can hold
C3_Witness ==
    /\ Parsed("x")
    /\ ValidAt(calls["x"].s, U8Mod - 1)
    /\ Live("x")

\* C4: failures are classified in a fixed order and leave no instance:
\* no colon gives MissingKeyDelimiter; with the first colon at an offset in
\* 1..255, a prefix A rejects gives UnknownKeyAlgorithm (even if K rejects
\* the suffix too), and otherwise a suffix K rejects gives InvalidKeyVersion.
C4_ErrorPriority ==
    \A b \in Slots :
        Parsed(b) =>
            LET s == calls[b].s
                r == calls[b].ret
            IN  /\ ~HasColon(s) => r = Failed("MissingKeyDelimiter")
                /\ \A i \in 1..(U8Mod - 1) :
                      FirstColonAt(s, i) =>
                          /\ ~A_from_str(adom, Slice(s, 0, i)).ok
                                => r = Failed("UnknownKeyAlgorithm")
                          /\ (/\ A_from_str(adom, Slice(s, 0, i)).ok
                              /\ ~K_from_str(kdom, SliceFrom(s, i + 1)).ok)
                                => r = Failed("InvalidKeyVersion")
                /\ ~validate(adom, kdom, s).ok => (r.tag = "Err" /\ r.id = NoId)

\* both parsers reject their part, and the algorithm error is the one reported
C4_Witness ==
    /\ Parsed("x")
    /\ \E i \in 1..(U8Mod - 1) :
          /\ FirstColonAt(calls["x"].s, i)
          /\ ~A_from_str(adom, Slice(calls["x"].s, 0, i)).ok
          /\ ~K_from_str(kdom, SliceFrom(calls["x"].s, i + 1)).ok
    /\ calls["x"].ret = Failed("UnknownKeyAlgorithm")


(* ----------------------- properties: from_parts ------------------------ *)

\* C5: when from_parts(a, k) returns, algorithm() gives a back,
\* identifier() gives k back, and the stored text is the rendering of a,
\* a colon, and the rendering of k.
C5_DecomposeAfterCompose ==
    \A b \in Slots :
        (Composed(b) /\ Live(b))
            => /\ algorithm(adom, Inst(b)) = [ok |-> TRUE, val |-> calls[b].a]
               /\ identifier(kdom, Inst(b)) = [ok |-> TRUE, val |-> calls[b].k]
               /\ Inst(b).full_id
                     = A_as_ref(calls[b].a) \o <<Colon>> \o K_as_ref(calls[b].k)

\* an instance composed from an algorithm whose own text holds a colon
C5_Witness ==
    /\ Composed("x")
    /\ Live("x")
    /\ HasColon(A_as_ref(calls["x"].a))

\* C6: on every instance, from either path, algorithm() and identifier()
\* succeed: the text before the split is accepted by A and the text after
\* it by K, so neither unwrap panics.
C6_AccessorsSucceed ==
    \A b \in Slots :
        Live(b) => /\ algorithm(adom, Inst(b)).ok
                   /\ identifier(kdom, Inst(b)).ok

\* a parsed instance whose key part is one byte, under the K parser that
\* refuses the empty text
C6_Witness ==
    /\ Parsed("x")
    /\ Live("x")
    /\ kdom = "nonempty"
    /\ Len(Inst("x").full_id) = Inst("x").colon_idx + 2

\* C7: from_parts never reports a validation error; it sets colon_idx to
\* the byte length of a's text when that is in 1..255, and panics, leaving
\* no instance, when that length is 0 or above 255.
C7_ComposeGuardsLimit ==
    \A b \in Slots :
        Composed(b) =>
            LET n == Len(A_as_ref(calls[b].a))
                r == calls[b].ret
            IN  /\ r.tag # "Err"
                /\ r.err \notin {"MissingKeyDelimiter", "UnknownKeyAlgorithm",
                                 "InvalidKeyVersion"}
                /\ n \in 1..(U8Mod - 1) => (r.tag = "Ok" /\ r.id.colon_idx = n)
                /\ (n = 0 \/ n > U8Mod - 1) => (r.tag = "Panic" /\ r.id = NoId)

\* a composition that panicked on an algorithm text longer than 256 bytes
C7_Witness ==
    /\ Composed("x")
    /\ Len(A_as_ref(calls["x"].a)) > U8Mod
    /\ calls["x"].ret.tag = "Panic"

\* the domain laws C10 assumes: each parser accepts the rendering of a
\* value and returns that value
Lawful(a, k) ==
    /\ A_from_str(adom, A_as_ref(a)) = [ok |-> TRUE, val |-> a]
    /\ K_from_str(kdom, K_as_ref(k)) = [ok |-> TRUE, val |-> k]

\* parsing the text of a composed instance gives an instance with the same
\* split offset and the same decomposition
AgreesWithParse(id) ==
    LET p == try_from(adom, kdom, as_str(id))
    IN  /\ p.tag = "Ok"
        /\ p.id.colon_idx = id.colon_idx
        /\ algorithm(adom, p.id) = algorithm(adom, id)
        /\ identifier(kdom, p.id) = identifier(kdom, id)

\* C10 as claimed: for lawful domains, whenever from_parts(a, k) returns,
\* parsing its text succeeds with the same colon_idx, algorithm() and
\* identifier().
C10_ParseAgreesWithCompose ==
    \A b \in Slots :
        (Composed(b) /\ Live(b) /\ Lawful(calls[b].a, calls[b].k))
            => AgreesWithParse(Inst(b))

\* C10 amended: the same, provided the rendering of a holds no colon byte.
C10_ParseAgreesWithoutColon ==
    \A b \in Slots :
        (/\ Composed(b)
         /\ Live(b)
         /\ Lawful(calls[b].a, calls[b].k)
         /\ ~HasColon(A_as_ref(calls[b].a)))
            => AgreesWithParse(Inst(b))

\* a composed instance with the longest colon-free algorithm text
C10_Witness ==
    /\ Composed("x")
    /\ Live("x")
    /\ Lawful(calls["x"].a, calls["x"].k)
    /\ ~HasColon(A_as_ref(calls["x"].a))
    /\ Inst("x").colon_idx = U8Mod - 1

(* ------------------- properties: equality and order -------------------- *)

\* l sorts strictly before r byte by byte: l is a proper prefix of r, or
\* the first byte where they differ is smaller in l
LexLess(l, r) ==
    \E i \in 0..Len(l) :
        /\ i <= Len(r)
        /\ SubSeq(l, 1, i) = SubSeq(r, 1, i)
        /\ \/ i = Len(l) /\ i < Len(r)
           \/ i < Len(l) /\ i < Len(r) /\ l[i + 1] < r[i + 1]

\* C8: two instances are equal iff their texts are equal, cmp is the
\* lexicographic byte order of the texts, and the hash input is the text;
\* the split offset plays no part.
C8_TextDecidesOrder ==
    (Live("x") /\ Live("y")) =>
        LET l == Inst("x").full_id
            r == Inst("y").full_id
        IN  /\ eq(Inst("x"), Inst("y")) <=> (l = r)
            /\ (hash_input(Inst("x")) = hash_input(Inst("y"))) <=> (l = r)
            /\ (cmp(Inst("x"), Inst("y")) = "Less") <=> LexLess(l, r)
            /\ (cmp(Inst("x"), Inst("y")) = "Greater") <=> LexLess(r, l)
            /\ (cmp(Inst("x"), Inst("y")) = "Equal") <=> (l = r)

\* two instances with the same text and different split offsets, one
\* parsed and one composed
C8_Witness ==
    /\ Parsed("x") /\ Live("x")
    /\ Composed("y") /\ Live("y")
    /\ Inst("x").full_id = Inst("y").full_id
    /\ Inst("x").colon_idx # Inst("y").colon_idx
    /\ eq(Inst("x"), Inst("y"))


(* --------------------- single-part identifier calls -------------------- *)

\* the caller's text, as a &str
source == [ptr |-> 1, len |-> Len(text)]

InitId ==
    /\ adom = "strict"
    /\ kdom = "any"
    /\ calls = [b \in Slots |-> NoCall]
    /\ text \in Texts(MaxId)
    /\ NoIds

\* let view: &Id = t.into()          (From<&'a str> for &'a $id)
Borrow ==
    /\ ~moved
    /\ ~IsSet(ids["view"])
    /\ ids' = [ids EXCEPT !["view"] = from_borrowed(source)]
    /\ UNCHANGED <<keyvars, text, heap, back, moved>>

\* let owned: Box<Id> = t.into()     (From<&str> for Box<$id>: s.into() copies)
BoxFromStr ==
    /\ ~moved
    /\ ~IsSet(ids["owned"])
    /\ heap' = alloc(heap, bytes(heap, source))
    /\ ids' = [ids EXCEPT !["owned"] = from_owned(fresh(heap, bytes(heap, source)))]
    /\ UNCHANGED <<keyvars, text, back, moved>>

\* let owned: Box<Id> = string.into() (From<String> for Box<$id>: the buffer
\* moves; no borrow of it may be alive)
BoxFromString ==
    /\ ~moved
    /\ ~IsSet(ids["owned"])
    /\ ~IsSet(ids["view"])
    /\ moved' = TRUE
    /\ ids' = [ids EXCEPT !["owned"] = from_owned(source)]
    /\ UNCHANGED <<keyvars, text, heap, back>>

\* let copy = src.to_owned()         (also Clone for Box<$id> and
\* From<&$id> for Box<$id>, which call it)
ToOwned ==
    \E src \in {"view", "owned"} :
        /\ IsSet(ids[src])
        /\ ~IsSet(ids["copy"])
        /\ heap' = to_owned_heap(heap, ids[src])
        /\ ids' = [ids EXCEPT !["copy"] = to_owned(heap, ids[src])]
        /\ UNCHANGED <<keyvars, text, back, moved>>

\* let back = String::from(src)      (From<Box<$id>> for String; src is moved)
IntoString ==
    \E src \in {"owned", "copy"} :
        /\ IsSet(ids[src])
        /\ ~IsSet(back)
        /\ back' = into_owned(ids[src])
        /\ ids' = [ids EXCEPT ![src] = Null]
        /\ UNCHANGED <<keyvars, text, heap, moved>>

NextId == Borrow \/ BoxFromStr \/ BoxFromString \/ ToOwned \/ IntoString

SpecId == InitId /\ [][NextId]_vars

\* C9: for any text t, the borrowed view of t, the owned value built from
\* t and the to_owned copy of either all have as_str() = t, are equal to
\* each other and to t as a plain string in both directions; the String an
\* owned value converts into is t; to_owned leaves its source as it was.
C9_WrapperKeepsText ==
    /\ \A n \in Names :
          IsSet(ids[n]) => /\ bytes(heap, id_as_str(ids[n])) = text
                           /\ id_eq_str(heap, ids[n], text)
                           /\ str_eq_id(heap, text, ids[n])
    /\ \A n, m \in Names :
          (IsSet(ids[n]) /\ IsSet(ids[m])) => id_eq(heap, ids[n], ids[m])
    /\ IsSet(back) => bytes(heap, back) = text
    /\ heap[1] = text

\* a view, a copy made of it, and a String converted from the owned value,
\* all of a non-empty text
C9_Witness ==
    /\ text # <<>>
    /\ IsSet(ids["view"])
    /\ IsSet(ids["copy"])
    /\ IsSet(back)
    /\ ids["copy"].ptr # ids["view"].ptr

=============================================================================
